---------------------------- MODULE Spec2Model ----------------------------
(***************************************************************************)
(* The recursive-descent parser of src/frontend/Parser.cpp as a state      *)
(* machine.  The call stack of the C++ program is the variable `stack`:    *)
(* one frame per active parser procedure, holding the procedure's name,    *)
(* its position (pc) and its local nodes.  A procedure's return value is   *)
(* passed to its caller through `ret`.  The scanner is the environment: it *)
(* delivers a finite token sequence, one token per nextToken() call, and   *)
(* END_OF_FILE from then on.  Line numbers and the text of diagnostics are *)
(* not part of the state: no property below reads them.                    *)
(***************************************************************************)
EXTENDS Naturals, Sequences, FiniteSets

VARIABLES
    family,        \* which set of token sequences the scanner's input is from
    consumed,      \* the tokens delivered so far, END_OF_FILE excluded
    readPastEOF,   \* nextToken() was called after END_OF_FILE was delivered
    currentToken,  \* Parser::currentToken, the lookahead
    stack,         \* the call stack of parser procedures
    ret,           \* the value returned by the procedure that returned last
    symtab,        \* the symbol table: the names entered, as entered
    errorCount     \* Parser::errorCount

vars == <<family, consumed, readPastEOF, currentToken, stack, ret, symtab, errorCount>>

---------------------------------------------------------------------------
(* Bounds of the model. *)

\* longest input of family "any" (arbitrary tokens)
MaxAnyLen == 2
\* longest statement part of family "loop"
MaxLoopLen == 5
\* longest statement part of family "assign"
MaxAssignLen == 4
\* longest expression of family "expr"
MaxExprLen == 5
\* longest argument part of family "write"
MaxWriteLen == 5
\* longest part after the expression of family "ops"
MaxOpsTail == 1
\* errorCount is tracked up to this value and stays there
MaxErrors == 8

---------------------------------------------------------------------------
(* Tokens. *)

Tok(type, text) == [type |-> type, text |-> text, value |-> ""]
Lit(type, text) == [type |-> type, text |-> text, value |-> text]

NoToken  == Tok("NONE", "")
EOFToken == Tok("END_OF_FILE", "")

KeywordTokens ==
    { Tok("PROGRAM", "PROGRAM"), Tok("BEGIN", "BEGIN"), Tok("END", "END"),
      Tok("REPEAT", "REPEAT"), Tok("UNTIL", "UNTIL"), Tok("WHILE", "WHILE"),
      Tok("DO", "DO"), Tok("WRITE", "WRITE"), Tok("WRITELN", "WRITELN"),
      Tok("NOT", "NOT") }

SymbolTokens ==
    { Tok("SEMICOLON", ";"), Tok("COLON_EQUALS", ":="), Tok("LPAREN", "("),
      Tok("RPAREN", ")"), Tok("COLON", ":"), Tok("PERIOD", "."),
      Tok("EQUALS", "="), Tok("LESS_THAN", "<"), Tok("LESS_EQUALS", "<="),
      Tok("GREATER_THAN", ">"), Tok("GREATER_EQUALS", ">="),
      Tok("NOT_EQUALS", "<>"), Tok("PLUS", "+"), Tok("MINUS", "-"),
      Tok("STAR", "*"), Tok("SLASH", "/") }

Ident(name) == Tok("IDENTIFIER", name)
Int(text)   == Lit("INTEGER", text)

LiteralTokens ==
    { Int("1"), Lit("REAL", "1.5"), Lit("STRING", "'st'"), Lit("CHARACTER", "'c'") }

AllTokens == KeywordTokens \cup SymbolTokens \cup LiteralTokens \cup {Ident("x")}

\* Parser::initialize: the token classification tables
statementStarters == {"BEGIN", "IDENTIFIER", "REPEAT", "WHILE", "WRITE", "WRITELN"}
statementFollowers == {"SEMICOLON", "END", "UNTIL", "END_OF_FILE", "DO"}
relationalOperators ==
    {"EQUALS", "LESS_THAN", "LESS_EQUALS", "GREATER_THAN", "GREATER_EQUALS", "NOT_EQUALS"}
simpleExpressionOperators == {"PLUS", "MINUS"}
\* a table that takes + for a multiplicative operator
termOperatorsWithPlus == {"STAR", "SLASH", "PLUS"}
termOperators == {"STAR", "SLASH"}
factorOperators == {"NOT"}

---------------------------------------------------------------------------
(* The scanner's inputs.  A family is a sequence of slots (the set of      *)
(* tokens allowed at each of the first positions) followed by at most      *)
(* Free(f) tokens of Alphabet(f).                                          *)

Families ==
    { "any", "loop", "assign", "expr", "ops", "write",
      "missingSeparator", "separator", "repeat", "while", "undeclared" }

\* one token per slot
Exactly(tokens) == [i \in 1..Len(tokens) |-> {tokens[i]}]

OperatorTokens ==
    { Tok("EQUALS", "="), Tok("LESS_THAN", "<"), Tok("LESS_EQUALS", "<="),
      Tok("GREATER_THAN", ">"), Tok("GREATER_EQUALS", ">="),
      Tok("NOT_EQUALS", "<>"), Tok("PLUS", "+"), Tok("MINUS", "-"),
      Tok("STAR", "*"), Tok("SLASH", "/") }

\* PROGRAM x ; BEGIN
Header == << {Tok("PROGRAM", "PROGRAM")}, {Ident("x")}, {Tok("SEMICOLON", ";")},
             {Tok("BEGIN", "BEGIN")} >>

Slots(f) ==
    CASE f = "any"    -> << >>
      [] f = "loop"   -> Header
      [] f = "assign" -> Header
      [] f = "expr"   -> Header \o << {Ident("x")}, {Tok("COLON_EQUALS", ":=")} >>
      \* x := 1 op 2 op 3, every pair of operators
      [] f = "ops"    -> Header \o << {Ident("x")}, {Tok("COLON_EQUALS", ":=")},
                                      {Int("1")}, OperatorTokens,
                                      {Int("2"), Lit("REAL", "1.5")}, OperatorTokens,
                                      {Int("3")} >>
      [] f = "write"  -> Header \o << {Tok("WRITE", "WRITE"), Tok("WRITELN", "WRITELN")},
                                      {Tok("LPAREN", "(")} >>
      \* BEGIN a := 1 a := 2 END
      [] f = "missingSeparator" ->
             Header \o Exactly(<< Ident("a"), Tok("COLON_EQUALS", ":="), Int("1"),
                                  Ident("a"), Tok("COLON_EQUALS", ":="), Int("2"),
                                  Tok("END", "END") >>)
      \* BEGIN a := 1 ; a := 2 END
      [] f = "separator" ->
             Header \o Exactly(<< Ident("a"), Tok("COLON_EQUALS", ":="), Int("1"),
                                  Tok("SEMICOLON", ";"),
                                  Ident("a"), Tok("COLON_EQUALS", ":="), Int("2"),
                                  Tok("END", "END") >>)
      \* BEGIN REPEAT WRITELN ; x := x + 1 UNTIL x = 10 END
      [] f = "repeat" ->
             Header \o Exactly(<< Tok("REPEAT", "REPEAT"), Tok("WRITELN", "WRITELN"),
                                  Tok("SEMICOLON", ";"),
                                  Ident("x"), Tok("COLON_EQUALS", ":="), Ident("x"),
                                  Tok("PLUS", "+"), Int("1"), Tok("UNTIL", "UNTIL"),
                                  Ident("x"), Tok("EQUALS", "="), Int("10"),
                                  Tok("END", "END") >>)
      \* BEGIN WHILE x < 10 DO x := x + 1 END
      [] f = "while" ->
             Header \o Exactly(<< Tok("WHILE", "WHILE"), Ident("x"),
                                  Tok("LESS_THAN", "<"), Int("10"), Tok("DO", "DO"),
                                  Ident("x"), Tok("COLON_EQUALS", ":="), Ident("x"),
                                  Tok("PLUS", "+"), Int("1"), Tok("END", "END") >>)
      \* BEGIN y := z END
      [] f = "undeclared" ->
             Header \o Exactly(<< Ident("y"), Tok("COLON_EQUALS", ":="), Ident("z"),
                                  Tok("END", "END") >>)

Alphabet(f) ==
    CASE f = "any"    -> AllTokens
      [] f = "loop"   -> { Int("1"), Tok("WHILE", "WHILE"), Tok("DO", "DO"),
                           Tok("REPEAT", "REPEAT"), Tok("UNTIL", "UNTIL"),
                           Tok("SEMICOLON", ";"), Tok("END", "END"),
                           Tok("WRITELN", "WRITELN") }
      [] f = "assign" -> { Ident("x"), Ident("X"), Ident("Z"), Tok("COLON_EQUALS", ":="),
                           Int("1"), Tok("SEMICOLON", ";"), Tok("END", "END") }
      [] f = "expr"   -> { Int("1"), Int("2"), Tok("PLUS", "+"),
                           Tok("STAR", "*"), Tok("LESS_THAN", "<"),
                           Tok("LPAREN", "("), Tok("RPAREN", ")") }
      [] f = "ops"    -> { Tok("END", "END") }
      [] f = "write"  -> { Ident("x"), Lit("STRING", "'st'"), Tok("COLON", ":"),
                           Int("1"), Tok("RPAREN", ")"), Tok("END", "END") }
      [] OTHER        -> {}

Free(f) ==
    CASE f = "any"    -> MaxAnyLen
      [] f = "loop"   -> MaxLoopLen
      [] f = "assign" -> MaxAssignLen
      [] f = "expr"   -> MaxExprLen
      [] f = "ops"    -> MaxOpsTail
      [] f = "write"  -> MaxWriteLen
      [] OTHER        -> 0

\* Scanner::nextToken: the tokens the next call can deliver
ScannerNext ==
    IF currentToken.type = "END_OF_FILE" THEN {EOFToken}
    ELSE IF Len(consumed) < Len(Slots(family)) THEN Slots(family)[Len(consumed) + 1]
    ELSE IF Len(consumed) < Len(Slots(family)) + Free(family)
         THEN Alphabet(family) \cup {EOFToken}
    ELSE {EOFToken}

\* currentToken = scanner->nextToken()
Consume(t) ==
    /\ currentToken' = t
    /\ consumed' = IF t.type = "END_OF_FILE" THEN consumed ELSE Append(consumed, t)
    /\ readPastEOF' = IF currentToken.type = "END_OF_FILE" THEN TRUE ELSE readPastEOF

NoConsume == UNCHANGED <<currentToken, consumed, readPastEOF>>

---------------------------------------------------------------------------
(* Nodes, the symbol table and the case conversion.                        *)

NoEntry == "nullptr"

Node(type) == [type |-> type, text |-> "", value |-> "", entry |-> NoEntry, children |-> << >>]

\* a null Node pointer
NullNode == Node("nullptr")

\* Node::adopt: append the child to the ordered child list
Adopt(parent, child) == [parent EXCEPT !.children = Append(@, child)]

\* toLowerCase on the identifiers of the model
ToLowerCase(name) ==
    CASE name = "X" -> "x"
      [] name = "Z" -> "z"
      [] OTHER      -> name

\* Symtab::lookup: case-insensitive; the entry is the name as entered
Lookup(table, key) ==
    IF \E e \in table : ToLowerCase(e) = key
    THEN CHOOSE e \in table : ToLowerCase(e) = key
    ELSE NoEntry

\* Symtab::enter
Enter(table, name) == table \cup {name}

---------------------------------------------------------------------------
(* The call stack.                                                         *)

\* A frame: the procedure, its position, its local node (the node being
\* built, or the parent handed in) and parseStatementList's terminalType.
Frame(fn, node, term) == [fn |-> fn, pc |-> "start", node |-> node, term |-> term]

Fr(fn) == Frame(fn, NullNode, "")

Top  == stack[Len(stack)]
Rest == SubSeq(stack, 1, Len(stack) - 1)

At(fn, pc) == stack # << >> /\ Top.fn = fn /\ Top.pc = pc

\* the top frame moves on
Step(top) == stack' = Rest \o << top >>
\* the top frame calls a procedure
Push(top, callee) == stack' = Rest \o << top, callee >>
\* the top frame returns
Pop == stack' = Rest

With(pc) == [Top EXCEPT !.pc = pc]
WithN(pc, node) == [Top EXCEPT !.pc = pc, !.node = node]

Done == stack = << >>

\* errorCount++ (tracked up to MaxErrors)
Increment(count) == IF count < MaxErrors THEN count + 1 ELSE count

---------------------------------------------------------------------------
(* Parser::syntaxError and Parser::semanticError.                          *)

\* errorCount++ of syntaxError
SyntaxErrorCount(count) == Increment(count)

\* a semanticError that forgets to count
SemanticErrorUncounted(count) == count

\* errorCount++ of semanticError
SemanticErrorCount(count) == Increment(count)

\* a syntaxError that discards nothing
SkipNothing(token) == FALSE

\* a syntaxError that does not stop at DO
SkipPastDo(token) == token.type \notin (statementFollowers \ {"DO"})

\* the loop test of syntaxError: keep skipping
SkipMore(token) == token.type \notin statementFollowers

\* syntaxError: report (pc start), then skip to a statement follower (pc skip)
syntaxError ==
    /\ stack # << >> /\ Top.fn = "syntaxError"
    /\ UNCHANGED <<family, symtab, ret>>
    /\ IF Top.pc = "start"
       THEN /\ errorCount' = SyntaxErrorCount(errorCount)
            /\ Step(With("skip"))
            /\ NoConsume
       ELSE /\ UNCHANGED errorCount
            /\ IF SkipMore(currentToken)
               THEN \E t \in ScannerNext : Consume(t) /\ UNCHANGED stack
               ELSE NoConsume /\ Pop

---------------------------------------------------------------------------
(* Parser::parseProgram.                                                   *)

parseProgram ==
    /\ stack # << >> /\ Top.fn = "parseProgram"
    /\ UNCHANGED <<family, errorCount>>
    /\ CASE Top.pc = "start" ->
              \* new PROGRAM node; the first token
              /\ \E t \in ScannerNext : Consume(t)
              /\ Step(WithN("program", Node("PROGRAM")))
              /\ UNCHANGED <<ret, symtab>>
         [] Top.pc = "program" ->
              /\ IF currentToken.type = "PROGRAM"
                 THEN (\E t \in ScannerNext : Consume(t)) /\ Step(With("name"))
                 ELSE NoConsume /\ Push(With("name"), Fr("syntaxError"))
              /\ UNCHANGED <<ret, symtab>>
         [] Top.pc = "name" ->
              /\ IF currentToken.type = "IDENTIFIER"
                 THEN /\ symtab' = Enter(symtab, currentToken.text)
                      /\ \E t \in ScannerNext : Consume(t)
                      /\ Step(WithN("semicolon", [Top.node EXCEPT !.text = currentToken.text]))
                 ELSE /\ NoConsume /\ UNCHANGED symtab
                      /\ Push(With("semicolon"), Fr("syntaxError"))
              /\ UNCHANGED ret
         [] Top.pc = "semicolon" ->
              /\ IF currentToken.type = "SEMICOLON"
                 THEN (\E t \in ScannerNext : Consume(t)) /\ Step(With("begin"))
                 ELSE NoConsume /\ Push(With("begin"), Fr("syntaxError"))
              /\ UNCHANGED <<ret, symtab>>
         [] Top.pc = "begin" ->
              /\ IF currentToken.type # "BEGIN"
                 THEN Push(With("compound"), Fr("syntaxError"))
                 ELSE Push(With("adopt"), Fr("parseCompoundStatement"))
              /\ NoConsume /\ UNCHANGED <<ret, symtab>>
         [] Top.pc = "compound" ->
              /\ Push(With("adopt"), Fr("parseCompoundStatement"))
              /\ NoConsume /\ UNCHANGED <<ret, symtab>>
         [] Top.pc = "adopt" ->
              \* the PROGRAM node adopts the COMPOUND tree
              /\ IF currentToken.type = "SEMICOLON"
                 THEN Push(WithN("return", Adopt(Top.node, ret)), Fr("syntaxError"))
                      /\ UNCHANGED ret
                 ELSE Pop /\ ret' = Adopt(Top.node, ret)
              /\ NoConsume /\ UNCHANGED symtab
         [] Top.pc = "return" ->
              /\ Pop /\ ret' = Top.node
              /\ NoConsume /\ UNCHANGED symtab

---------------------------------------------------------------------------
(* Parser::parseStatement.                                                 *)

\* the procedure the switch of parseStatement selects; "" for none
StatementParser(tokenType) ==
    CASE tokenType = "IDENTIFIER" -> "parseAssignmentStatement"
      [] tokenType = "BEGIN"      -> "parseCompoundStatement"
      [] tokenType = "REPEAT"     -> "parseRepeatStatement"
      [] tokenType = "WRITE"      -> "parseWriteStatement"
      [] tokenType = "WRITELN"    -> "parseWritelnStatement"
      [] tokenType = "WHILE"      -> "parseWhileStatement"
      [] OTHER                    -> ""

parseStatement ==
    /\ stack # << >> /\ Top.fn = "parseStatement"
    /\ UNCHANGED <<family, errorCount, symtab>> /\ NoConsume
    /\ CASE Top.pc = "start" ->
              IF StatementParser(currentToken.type) # ""
              THEN Push(With("return"), Fr(StatementParser(currentToken.type)))
                   /\ UNCHANGED ret
              ELSE IF currentToken.type = "SEMICOLON"
              THEN Pop /\ ret' = NullNode             \* empty statement
              ELSE Push(With("error"), Fr("syntaxError")) /\ UNCHANGED ret
         [] Top.pc = "return" -> Pop /\ UNCHANGED ret  \* return stmtNode
         [] Top.pc = "error"  -> Pop /\ ret' = NullNode

---------------------------------------------------------------------------
(* Parser::parseAssignmentStatement.                                       *)

\* the symbol table after the left-hand side was looked up and, if absent, entered
EnterIfAbsent(table, name) ==
    IF Lookup(table, ToLowerCase(name)) = NoEntry THEN Enter(table, name) ELSE table

\* a VARIABLE node with its text and its symbol table entry
VariableNode(name, entry) == [Node("VARIABLE") EXCEPT !.text = name, !.entry = entry]

parseAssignmentStatement ==
    /\ stack # << >> /\ Top.fn = "parseAssignmentStatement"
    /\ UNCHANGED <<family, errorCount>>
    /\ CASE Top.pc = "start" ->
              \* new ASSIGN node; it adopts the VARIABLE node of the left-hand side
              /\ symtab' = EnterIfAbsent(symtab, currentToken.text)
              /\ \E t \in ScannerNext : Consume(t)
              /\ Step(WithN("colonEquals",
                        Adopt(Node("ASSIGN"),
                              VariableNode(currentToken.text,
                                           Lookup(symtab', ToLowerCase(currentToken.text))))))
              /\ UNCHANGED ret
         [] Top.pc = "colonEquals" ->
              /\ IF currentToken.type = "COLON_EQUALS"
                 THEN (\E t \in ScannerNext : Consume(t))
                      /\ Push(With("adopt"), Fr("parseExpression"))
                 ELSE NoConsume /\ Push(With("expression"), Fr("syntaxError"))
              /\ UNCHANGED <<ret, symtab>>
         [] Top.pc = "expression" ->
              /\ Push(With("adopt"), Fr("parseExpression"))
              /\ NoConsume /\ UNCHANGED <<ret, symtab>>
         [] Top.pc = "adopt" ->
              \* the ASSIGN node adopts the expression node as its second child
              /\ Pop /\ ret' = Adopt(Top.node, ret)
              /\ NoConsume /\ UNCHANGED symtab

---------------------------------------------------------------------------
(* Parser::parseCompoundStatement and Parser::parseStatementList.          *)

parseCompoundStatement ==
    /\ stack # << >> /\ Top.fn = "parseCompoundStatement"
    /\ UNCHANGED <<family, errorCount, symtab>>
    /\ CASE Top.pc = "start" ->
              \* new COMPOUND node; consume BEGIN; parse the list up to END
              /\ \E t \in ScannerNext : Consume(t)
              /\ Push(With("end"), Frame("parseStatementList", Node("COMPOUND"), "END"))
              /\ UNCHANGED ret
         [] Top.pc = "end" ->
              \* ret is the COMPOUND node the list worked on
              IF currentToken.type = "END"
              THEN (\E t \in ScannerNext : Consume(t)) /\ Pop /\ UNCHANGED ret
              ELSE NoConsume /\ Push(WithN("return", ret), Fr("syntaxError")) /\ UNCHANGED ret
         [] Top.pc = "return" ->
              /\ Pop /\ ret' = Top.node /\ NoConsume

\* the condition of the while loop of parseStatementList
ListContinues(token, terminalType) ==
    token.type # terminalType /\ token.type # "END_OF_FILE"

\* parentNode is the caller's node: the frame works on it (node) and hands
\* it back through ret when the procedure returns.
parseStatementList ==
    /\ stack # << >> /\ Top.fn = "parseStatementList"
    /\ UNCHANGED <<family, errorCount, symtab>>
    /\ CASE Top.pc = "start" ->
              IF ListContinues(currentToken, Top.term)
              THEN Push(With("adopt"), Fr("parseStatement")) /\ NoConsume /\ UNCHANGED ret
              ELSE Pop /\ ret' = Top.node /\ NoConsume
         [] Top.pc = "adopt" ->
              \* adopt the statement unless null; then the separator
              /\ UNCHANGED ret
              /\ LET parent == IF ret # NullNode THEN Adopt(Top.node, ret) ELSE Top.node
                 IN  IF currentToken.type = "SEMICOLON"
                     THEN (\E t \in ScannerNext : Consume(t))
                          /\ Step(WithN("semicolons", parent))
                     ELSE IF currentToken.type \in statementStarters
                     THEN NoConsume /\ Push(WithN("start", parent), Fr("syntaxError"))
                     ELSE NoConsume /\ Step(WithN("start", parent))
         [] Top.pc = "semicolons" ->
              \* the inner while loop: consume further semicolons
              /\ UNCHANGED ret
              /\ IF currentToken.type = "SEMICOLON"
                 THEN (\E t \in ScannerNext : Consume(t)) /\ UNCHANGED stack
                 ELSE NoConsume /\ Step(With("start"))

---------------------------------------------------------------------------
(* Parser::parseRepeatStatement and Parser::parseWhileStatement.           *)

\* the TEST node of a REPEAT loop
RepeatTest(condition) == Adopt(Node("TEST"), condition)

\* a TEST node of a WHILE loop without the negation
WhileTestNotNegated(condition) == Adopt(Node("TEST"), condition)

\* the TEST node of a WHILE loop: the condition is negated
WhileTest(condition) == Adopt(Node("TEST"), Adopt(Node("NOT"), condition))

parseRepeatStatement ==
    /\ stack # << >> /\ Top.fn = "parseRepeatStatement"
    /\ UNCHANGED <<family, errorCount, symtab>>
    /\ CASE Top.pc = "start" ->
              \* new LOOP node; consume REPEAT; parse the list up to UNTIL
              /\ \E t \in ScannerNext : Consume(t)
              /\ Push(With("until"), Frame("parseStatementList", Node("LOOP"), "UNTIL"))
              /\ UNCHANGED ret
         [] Top.pc = "until" ->
              \* ret is the LOOP node the list worked on
              /\ UNCHANGED ret
              /\ IF currentToken.type = "UNTIL"
                 THEN (\E t \in ScannerNext : Consume(t))
                      /\ Push(WithN("test", ret), Fr("parseExpression"))
                 ELSE NoConsume /\ Push(WithN("return", ret), Fr("syntaxError"))
         [] Top.pc = "test" ->
              \* the LOOP node adopts the TEST node as its final child
              /\ Pop /\ ret' = Adopt(Top.node, RepeatTest(ret)) /\ NoConsume
         [] Top.pc = "return" ->
              /\ Pop /\ ret' = Top.node /\ NoConsume

parseWhileStatement ==
    /\ stack # << >> /\ Top.fn = "parseWhileStatement"
    /\ UNCHANGED <<family, errorCount, symtab>>
    /\ CASE Top.pc = "start" ->
              \* new LOOP node; consume WHILE; parse the condition
              /\ \E t \in ScannerNext : Consume(t)
              /\ Push(WithN("do", Node("LOOP")), Fr("parseExpression"))
              /\ UNCHANGED ret
         [] Top.pc = "do" ->
              \* the LOOP node adopts the TEST node as its first child
              /\ UNCHANGED ret
              /\ IF currentToken.type = "DO"
                 THEN (\E t \in ScannerNext : Consume(t))
                      /\ Push(WithN("body", Adopt(Top.node, WhileTest(ret))), Fr("parseStatement"))
                 ELSE NoConsume
                      /\ Push(WithN("return", Adopt(Top.node, WhileTest(ret))), Fr("syntaxError"))
         [] Top.pc = "body" ->
              \* the LOOP node adopts whatever parseStatement returned
              /\ Pop /\ ret' = Adopt(Top.node, ret) /\ NoConsume
         [] Top.pc = "return" ->
              /\ Pop /\ ret' = Top.node /\ NoConsume

---------------------------------------------------------------------------
(* Parser::parseWriteStatement, parseWritelnStatement, parseWriteArguments. *)

parseWriteStatement ==
    /\ stack # << >> /\ Top.fn = "parseWriteStatement"
    /\ UNCHANGED <<family, errorCount, symtab>>
    /\ CASE Top.pc = "start" ->
              \* new WRITE node; consume WRITE
              /\ \E t \in ScannerNext : Consume(t)
              /\ Push(With("check"), Frame("parseWriteArguments", Node("WRITE"), ""))
              /\ UNCHANGED ret
         [] Top.pc = "check" ->
              \* ret is the WRITE node parseWriteArguments worked on
              /\ NoConsume
              /\ IF Len(ret.children) = 0
                 THEN Push(WithN("return", ret), Fr("syntaxError")) /\ UNCHANGED ret
                 ELSE Pop /\ UNCHANGED ret
         [] Top.pc = "return" ->
              /\ Pop /\ ret' = Top.node /\ NoConsume

parseWritelnStatement ==
    /\ stack # << >> /\ Top.fn = "parseWritelnStatement"
    /\ UNCHANGED <<family, errorCount, symtab>>
    /\ CASE Top.pc = "start" ->
              \* new WRITELN node; consume WRITELN; arguments only after (
              \E t \in ScannerNext :
                  /\ Consume(t)
                  /\ IF t.type = "LPAREN"
                     THEN Push(With("return"),
                               Frame("parseWriteArguments", Node("WRITELN"), ""))
                          /\ UNCHANGED ret
                     ELSE Pop /\ ret' = Node("WRITELN")
         [] Top.pc = "return" ->
              \* ret is the WRITELN node parseWriteArguments worked on
              /\ Pop /\ UNCHANGED ret /\ NoConsume

\* an argument choice that takes a number for an argument
ArgumentParserWithNumbers(tokenType) ==
    CASE tokenType = "IDENTIFIER" -> "parseVariable"
      [] tokenType = "CHARACTER"  -> "parseStringConstant"
      [] tokenType = "STRING"     -> "parseStringConstant"
      [] tokenType = "INTEGER"    -> "parseIntegerConstant"
      [] OTHER                    -> ""

\* the procedure parseWriteArguments calls for the argument; "" for none
ArgumentParser(tokenType) ==
    CASE tokenType = "IDENTIFIER" -> "parseVariable"
      [] tokenType = "CHARACTER"  -> "parseStringConstant"
      [] tokenType = "STRING"     -> "parseStringConstant"
      [] OTHER                    -> ""

\* node is the caller's node: the frame works on it and hands it back
\* through ret.  hasArgument is true exactly at the positions width,
\* widthValue, decimals and decimalsValue.
parseWriteArguments ==
    /\ stack # << >> /\ Top.fn = "parseWriteArguments"
    /\ UNCHANGED <<family, errorCount, symtab>>
    /\ CASE Top.pc = "start" ->
              /\ IF currentToken.type = "LPAREN"
                 THEN (\E t \in ScannerNext : Consume(t)) /\ Step(With("argument"))
                 ELSE NoConsume /\ Push(With("argument"), Fr("syntaxError"))
              /\ UNCHANGED ret
         [] Top.pc = "argument" ->
              /\ NoConsume /\ UNCHANGED ret
              /\ IF ArgumentParser(currentToken.type) # ""
                 THEN Push(With("width"), Fr(ArgumentParser(currentToken.type)))
                 ELSE Push(With("rparen"), Fr("syntaxError"))
         [] Top.pc = "width" ->
              \* adopt the argument; look for a field width
              /\ UNCHANGED ret
              /\ IF currentToken.type = "COLON"
                 THEN (\E t \in ScannerNext : Consume(t))
                      /\ Step(WithN("widthValue", Adopt(Top.node, ret)))
                 ELSE NoConsume /\ Step(WithN("rparen", Adopt(Top.node, ret)))
         [] Top.pc = "widthValue" ->
              /\ NoConsume /\ UNCHANGED ret
              /\ IF currentToken.type = "INTEGER"
                 THEN Push(With("decimals"), Fr("parseIntegerConstant"))
                 ELSE Push(With("rparen"), Fr("syntaxError"))
         [] Top.pc = "decimals" ->
              \* adopt the field width; look for a count of decimal places
              /\ UNCHANGED ret
              /\ IF currentToken.type = "COLON"
                 THEN (\E t \in ScannerNext : Consume(t))
                      /\ Step(WithN("decimalsValue", Adopt(Top.node, ret)))
                 ELSE NoConsume /\ Step(WithN("rparen", Adopt(Top.node, ret)))
         [] Top.pc = "decimalsValue" ->
              /\ NoConsume /\ UNCHANGED ret
              /\ IF currentToken.type = "INTEGER"
                 THEN Push(With("adoptDecimals"), Fr("parseIntegerConstant"))
                 ELSE Push(With("rparen"), Fr("syntaxError"))
         [] Top.pc = "adoptDecimals" ->
              /\ NoConsume /\ UNCHANGED ret
              /\ Step(WithN("rparen", Adopt(Top.node, ret)))
         [] Top.pc = "rparen" ->
              IF currentToken.type = "RPAREN"
              THEN (\E t \in ScannerNext : Consume(t)) /\ Pop /\ ret' = Top.node
              ELSE NoConsume /\ Push(With("return"), Fr("syntaxError")) /\ UNCHANGED ret
         [] Top.pc = "return" ->
              /\ Pop /\ ret' = Top.node /\ NoConsume

---------------------------------------------------------------------------
(* Parser::parseExpression, parseSimpleExpression, parseTerm, parseFactor. *)

\* the node type of a relational operator token
RelationalNodeType(tokenType) ==
    CASE tokenType = "EQUALS"         -> "EQ"
      [] tokenType = "LESS_THAN"      -> "LT"
      [] tokenType = "LESS_EQUALS"    -> "LE"
      [] tokenType = "GREATER_THAN"   -> "GT"
      [] tokenType = "GREATER_EQUALS" -> "GE"
      [] tokenType = "NOT_EQUALS"     -> "NE"
      [] OTHER                        -> "nullptr"

\* the node type of a + or - token
AdditiveNodeType(tokenType) == IF tokenType = "PLUS" THEN "ADD" ELSE "SUBTRACT"

\* the node type of a * or / token
MultiplicativeNodeType(tokenType) == IF tokenType = "STAR" THEN "MULTIPLY" ELSE "DIVIDE"

\* an operator node that drops its first operand
OperatorNodeWithoutLeft(type, left) == Node(type)

\* an operator node adopts its first operand
OperatorNode(type, left) == Adopt(Node(type), left)

parseExpression ==
    /\ stack # << >> /\ Top.fn = "parseExpression"
    /\ UNCHANGED <<family, errorCount, symtab>>
    /\ CASE Top.pc = "start" ->
              /\ Push(With("relational"), Fr("parseSimpleExpression"))
              /\ NoConsume /\ UNCHANGED ret
         [] Top.pc = "relational" ->
              \* ret is exprNode
              IF currentToken.type \in relationalOperators
              THEN /\ \E t \in ScannerNext : Consume(t)
                   /\ IF RelationalNodeType(currentToken.type) # "nullptr"
                      THEN Push(WithN("adopt",
                                      OperatorNode(RelationalNodeType(currentToken.type), ret)),
                                Fr("parseSimpleExpression"))
                           /\ UNCHANGED ret
                      ELSE Pop /\ UNCHANGED ret
              ELSE Pop /\ UNCHANGED ret /\ NoConsume
         [] Top.pc = "adopt" ->
              \* the operator node adopts the second simple expression
              /\ Pop /\ ret' = Adopt(Top.node, ret) /\ NoConsume

parseSimpleExpression ==
    /\ stack # << >> /\ Top.fn = "parseSimpleExpression"
    /\ UNCHANGED <<family, errorCount, symtab>>
    /\ CASE Top.pc = "start" ->
              /\ Push(With("first"), Fr("parseTerm"))
              /\ NoConsume /\ UNCHANGED ret
         [] Top.pc \in {"first", "adopt"} ->
              \* simpExprNode is the first term, or the operator node (node)
              \* after it adopted the next term
              LET simpExprNode == IF Top.pc = "first" THEN ret ELSE Adopt(Top.node, ret)
              IN  IF currentToken.type \in simpleExpressionOperators
                  THEN /\ \E t \in ScannerNext : Consume(t)
                       /\ Push(WithN("adopt",
                                     OperatorNode(AdditiveNodeType(currentToken.type),
                                                  simpExprNode)),
                               Fr("parseTerm"))
                       /\ UNCHANGED ret
                  ELSE Pop /\ ret' = simpExprNode /\ NoConsume

parseTerm ==
    /\ stack # << >> /\ Top.fn = "parseTerm"
    /\ UNCHANGED <<family, errorCount, symtab>>
    /\ CASE Top.pc = "start" ->
              /\ Push(With("first"), Fr("parseFactor"))
              /\ NoConsume /\ UNCHANGED ret
         [] Top.pc \in {"first", "adopt"} ->
              \* termNode is the first factor, or the operator node (node)
              \* after it adopted the next factor
              LET termNode == IF Top.pc = "first" THEN ret ELSE Adopt(Top.node, ret)
              IN  IF currentToken.type \in termOperators
                  THEN /\ \E t \in ScannerNext : Consume(t)
                       /\ Push(WithN("adopt",
                                     OperatorNode(MultiplicativeNodeType(currentToken.type),
                                                  termNode)),
                               Fr("parseFactor"))
                       /\ UNCHANGED ret
                  ELSE Pop /\ ret' = termNode /\ NoConsume

\* the procedure parseFactor calls for a token that is an operand; "" for none
FactorParser(tokenType) ==
    CASE tokenType = "IDENTIFIER" -> "parseVariable"
      [] tokenType = "INTEGER"    -> "parseIntegerConstant"
      [] tokenType = "REAL"       -> "parseRealConstant"
      [] OTHER                    -> ""

parseFactor ==
    /\ stack # << >> /\ Top.fn = "parseFactor"
    /\ UNCHANGED <<family, errorCount, symtab>>
    /\ CASE Top.pc = "start" ->
              /\ UNCHANGED ret
              /\ IF FactorParser(currentToken.type) # ""
                 THEN NoConsume /\ Push(With("return"), Fr(FactorParser(currentToken.type)))
                 ELSE IF currentToken.type = "LPAREN"
                 THEN (\E t \in ScannerNext : Consume(t))
                      /\ Push(With("rparen"), Fr("parseExpression"))
                 ELSE NoConsume /\ Push(With("null"), Fr("syntaxError"))
         [] Top.pc = "return" ->
              /\ Pop /\ UNCHANGED ret /\ NoConsume
         [] Top.pc = "rparen" ->
              \* ret is exprNode
              /\ UNCHANGED ret
              /\ IF currentToken.type = "RPAREN"
                 THEN (\E t \in ScannerNext : Consume(t)) /\ Pop
                 ELSE NoConsume /\ Push(WithN("returnExpr", ret), Fr("syntaxError"))
         [] Top.pc = "returnExpr" ->
              /\ Pop /\ ret' = Top.node /\ NoConsume
         [] Top.pc = "null" ->
              /\ Pop /\ ret' = NullNode /\ NoConsume

---------------------------------------------------------------------------
(* Parser::parseVariable and the constants.                                *)

\* a constant node with the value of the token
ConstantNode(type, token) == [Node(type) EXCEPT !.value = token.value]

parseVariable ==
    /\ stack # << >> /\ Top.fn = "parseVariable"
    /\ UNCHANGED <<family, symtab>>
    /\ LET variableName == currentToken.text
           variableId   == Lookup(symtab, ToLowerCase(variableName))
       IN  /\ errorCount' = IF variableId = NoEntry
                            THEN SemanticErrorCount(errorCount)
                            ELSE errorCount
           /\ ret' = VariableNode(variableName, variableId)
    /\ \E t \in ScannerNext : Consume(t)
    /\ Pop

parseIntegerConstant ==
    /\ stack # << >> /\ Top.fn = "parseIntegerConstant"
    /\ UNCHANGED <<family, symtab, errorCount>>
    /\ ret' = ConstantNode("INTEGER_CONSTANT", currentToken)
    /\ \E t \in ScannerNext : Consume(t)
    /\ Pop

parseRealConstant ==
    /\ stack # << >> /\ Top.fn = "parseRealConstant"
    /\ UNCHANGED <<family, symtab, errorCount>>
    /\ ret' = ConstantNode("REAL_CONSTANT", currentToken)
    /\ \E t \in ScannerNext : Consume(t)
    /\ Pop

parseStringConstant ==
    /\ stack # << >> /\ Top.fn = "parseStringConstant"
    /\ UNCHANGED <<family, symtab, errorCount>>
    /\ ret' = ConstantNode("STRING_CONSTANT", currentToken)
    /\ \E t \in ScannerNext : Consume(t)
    /\ Pop

---------------------------------------------------------------------------
(* The specification.                                                      *)

Init ==
    /\ family \in Families
    /\ consumed = << >>
    /\ readPastEOF = FALSE
    /\ currentToken = NoToken
    /\ stack = << Fr("parseProgram") >>
    /\ ret = NullNode
    /\ symtab = {}
    /\ errorCount = 0

Next ==
    \/ parseProgram
    \/ parseStatement
    \/ parseAssignmentStatement
    \/ parseCompoundStatement
    \/ parseStatementList
    \/ parseRepeatStatement
    \/ parseWhileStatement
    \/ parseWriteStatement
    \/ parseWritelnStatement
    \/ parseWriteArguments
    \/ parseExpression
    \/ parseSimpleExpression
    \/ parseTerm
    \/ parseFactor
    \/ parseVariable
    \/ parseIntegerConstant
    \/ parseRealConstant
    \/ parseStringConstant
    \/ syntaxError

Spec == Init /\ [][Next]_vars

\* The parser is one sequential program: whenever it can take a step it does.
FairSpec == Spec /\ WF_vars(Next)

---------------------------------------------------------------------------
(* Trees.                                                                  *)

RECURSIVE SubNodes(_)
\* the node and every node below it
SubNodes(n) == {n} \cup UNION { SubNodes(n.children[i]) : i \in 1..Len(n.children) }

\* the tree parseProgram returned
Returned == ret

---------------------------------------------------------------------------
(* C1. For every finite token sequence parseProgram terminates and returns *)
(* a PROGRAM root: every statement-list loop and every skip loop exits.    *)
C1_Terminates == <>(Done /\ Returned.type = "PROGRAM")

---------------------------------------------------------------------------
(* Node shapes used by the properties.                                     *)

IntegerConstant(text) == [Node("INTEGER_CONSTANT") EXCEPT !.value = text]

RelationalTypes == {"EQ", "LT", "LE", "GT", "GE", "NE"}
ArithmeticTypes == {"ADD", "SUBTRACT", "MULTIPLY", "DIVIDE"}
ExpressionTypes ==
    RelationalTypes \cup ArithmeticTypes \cup {"VARIABLE", "INTEGER_CONSTANT", "REAL_CONSTANT"}
StatementTypes == {"ASSIGN", "COMPOUND", "LOOP", "WRITE", "WRITELN"}

\* the COMPOUND node of the program the parser returned
ReturnedCompound == Returned.children[1]

\* ASSIGN(VARIABLE(a), INTEGER_CONSTANT(value)), a entered as "a"
AssignA(value) ==
    Adopt(Adopt(Node("ASSIGN"), VariableNode("a", "a")), IntegerConstant(value))

---------------------------------------------------------------------------
(* C2. Well-formed programs: for every token sequence derivable from the   *)
(* grammar of section 4.2, empty statements included (as a WHILE body      *)
(* too), in which every operand identifier was earlier an assignment       *)
(* target or the program name, parseProgram ends with error count 0 and    *)
(* returns the tree the derivation prescribes.                             *)

\* the node type the specification gives an operator token
OperatorKind(tokenType) ==
    CASE tokenType = "EQUALS"         -> "EQ"
      [] tokenType = "LESS_THAN"      -> "LT"
      [] tokenType = "LESS_EQUALS"    -> "LE"
      [] tokenType = "GREATER_THAN"   -> "GT"
      [] tokenType = "GREATER_EQUALS" -> "GE"
      [] tokenType = "NOT_EQUALS"     -> "NE"
      [] tokenType = "PLUS"           -> "ADD"
      [] tokenType = "MINUS"          -> "SUBTRACT"
      [] tokenType = "STAR"           -> "MULTIPLY"
      [] tokenType = "SLASH"          -> "DIVIDE"

\* the token at a position, END_OF_FILE after the last one
TokenAt(tokens, i) == IF i \in 1..Len(tokens) THEN tokens[i] ELSE EOFToken

\* a derivation: the node derived, the position after it, the names declared
Derived(node, next, declared) ==
    [ok |-> TRUE, node |-> node, next |-> next, declared |-> declared]
Underivable == [ok |-> FALSE, node |-> NullNode, next |-> 0, declared |-> {}]

Declared(declared, name) == \E e \in declared : ToLowerCase(e) = ToLowerCase(name)

RECURSIVE DeriveExpression(_, _, _)
RECURSIVE DeriveSimpleExpression(_, _, _)
RECURSIVE DeriveAdditive(_, _, _, _)
RECURSIVE DeriveTerm(_, _, _)
RECURSIVE DeriveMultiplicative(_, _, _, _)
RECURSIVE DeriveFactor(_, _, _)
RECURSIVE DeriveStatement(_, _, _)
RECURSIVE DeriveStatementList(_, _, _, _)

\* factor := identifier | integer | real | '(' expression ')'
DeriveFactor(tokens, i, declared) ==
    LET token == TokenAt(tokens, i)
    IN  CASE token.type = "IDENTIFIER" /\ Declared(declared, token.text) ->
               Derived(VariableNode(token.text, NoEntry), i + 1, declared)
          [] token.type = "INTEGER" ->
               Derived([Node("INTEGER_CONSTANT") EXCEPT !.value = token.value], i + 1, declared)
          [] token.type = "REAL" ->
               Derived([Node("REAL_CONSTANT") EXCEPT !.value = token.value], i + 1, declared)
          [] token.type = "LPAREN" ->
               LET e == DeriveExpression(tokens, i + 1, declared)
               IN  IF e.ok /\ TokenAt(tokens, e.next).type = "RPAREN"
                   THEN Derived(e.node, e.next + 1, declared)
                   ELSE Underivable
          [] OTHER -> Underivable

\* (( '*' | '/' ) factor)*, folded left to right onto left
DeriveMultiplicative(tokens, i, declared, left) ==
    IF TokenAt(tokens, i).type \in {"STAR", "SLASH"}
    THEN LET f == DeriveFactor(tokens, i + 1, declared)
         IN  IF f.ok
             THEN DeriveMultiplicative(tokens, f.next, declared,
                    Adopt(Adopt(Node(OperatorKind(TokenAt(tokens, i).type)), left), f.node))
             ELSE Underivable
    ELSE Derived(left, i, declared)

\* term := factor (( '*' | '/' ) factor)*
DeriveTerm(tokens, i, declared) ==
    LET f == DeriveFactor(tokens, i, declared)
    IN  IF f.ok THEN DeriveMultiplicative(tokens, f.next, declared, f.node) ELSE Underivable

\* (( '+' | '-' ) term)*, folded left to right onto left
DeriveAdditive(tokens, i, declared, left) ==
    IF TokenAt(tokens, i).type \in {"PLUS", "MINUS"}
    THEN LET t == DeriveTerm(tokens, i + 1, declared)
         IN  IF t.ok
             THEN DeriveAdditive(tokens, t.next, declared,
                    Adopt(Adopt(Node(OperatorKind(TokenAt(tokens, i).type)), left), t.node))
             ELSE Underivable
    ELSE Derived(left, i, declared)

\* simple-expr := term (( '+' | '-' ) term)*
DeriveSimpleExpression(tokens, i, declared) ==
    LET t == DeriveTerm(tokens, i, declared)
    IN  IF t.ok THEN DeriveAdditive(tokens, t.next, declared, t.node) ELSE Underivable

\* expression := simple-expr (relational-op simple-expr)?
DeriveExpression(tokens, i, declared) ==
    LET left == DeriveSimpleExpression(tokens, i, declared)
    IN  IF ~left.ok THEN Underivable
        ELSE IF TokenAt(tokens, left.next).type \in
                  {"EQUALS", "LESS_THAN", "LESS_EQUALS",
                   "GREATER_THAN", "GREATER_EQUALS", "NOT_EQUALS"}
        THEN LET right == DeriveSimpleExpression(tokens, left.next + 1, declared)
             IN  IF right.ok
                 THEN Derived(Adopt(Adopt(Node(OperatorKind(TokenAt(tokens, left.next).type)),
                                          left.node), right.node),
                              right.next, declared)
                 ELSE Underivable
        ELSE left

\* write-args := '(' (identifier | string-literal) (':' integer (':' integer)?)? ')'
DeriveWriteArguments(tokens, i, declared, node) ==
    LET argument == TokenAt(tokens, i + 1)
        first ==
            IF argument.type = "IDENTIFIER"
            THEN Adopt(node, VariableNode(argument.text, NoEntry))
            ELSE Adopt(node, [Node("STRING_CONSTANT") EXCEPT !.value = argument.value])
        Constant(j) == [Node("INTEGER_CONSTANT") EXCEPT !.value = TokenAt(tokens, j).value]
        Field(j) == TokenAt(tokens, j).type = "COLON" /\ TokenAt(tokens, j + 1).type = "INTEGER"
        Close(n, j) ==
            IF TokenAt(tokens, j).type = "RPAREN" THEN Derived(n, j + 1, declared)
            ELSE Underivable
    IN  IF /\ TokenAt(tokens, i).type = "LPAREN"
           /\ \/ argument.type = "IDENTIFIER" /\ Declared(declared, argument.text)
              \/ argument.type \in {"STRING", "CHARACTER"}
        THEN IF Field(i + 2)
             THEN IF Field(i + 4)
                  THEN Close(Adopt(Adopt(first, Constant(i + 3)), Constant(i + 5)), i + 6)
                  ELSE Close(Adopt(first, Constant(i + 3)), i + 4)
             ELSE Close(first, i + 2)
        ELSE Underivable

\* statement := assignment | compound-stmt | repeat-stmt | while-stmt
\*            | write-stmt | writeln-stmt | empty; the empty statement
\* derives no node
DeriveStatement(tokens, i, declared) ==
    LET token == TokenAt(tokens, i)
    IN  CASE token.type = "IDENTIFIER" ->
               \* assignment := identifier ':=' expression
               LET target == IF Declared(declared, token.text) THEN declared
                             ELSE declared \cup {token.text}
                   e == DeriveExpression(tokens, i + 2, target)
               IN  IF TokenAt(tokens, i + 1).type = "COLON_EQUALS" /\ e.ok
                   THEN Derived(Adopt(Adopt(Node("ASSIGN"), VariableNode(token.text, NoEntry)),
                                      e.node),
                                e.next, target)
                   ELSE Underivable
          [] token.type = "BEGIN" ->
               \* compound-stmt := BEGIN stmt-list END
               LET l == DeriveStatementList(tokens, i + 1, declared, Node("COMPOUND"))
               IN  IF l.ok /\ TokenAt(tokens, l.next).type = "END"
                   THEN Derived(l.node, l.next + 1, l.declared)
                   ELSE Underivable
          [] token.type = "REPEAT" ->
               \* repeat-stmt := REPEAT stmt-list UNTIL expression
               LET l == DeriveStatementList(tokens, i + 1, declared, Node("LOOP"))
                   e == DeriveExpression(tokens, l.next + 1, l.declared)
               IN  IF l.ok /\ TokenAt(tokens, l.next).type = "UNTIL" /\ e.ok
                   THEN Derived(Adopt(l.node, Adopt(Node("TEST"), e.node)), e.next, l.declared)
                   ELSE Underivable
          [] token.type = "WHILE" ->
               \* while-stmt := WHILE expression DO statement
               LET e == DeriveExpression(tokens, i + 1, declared)
                   body == DeriveStatement(tokens, e.next + 1, declared)
                   loop == Adopt(Node("LOOP"), Adopt(Node("TEST"), Adopt(Node("NOT"), e.node)))
               IN  IF e.ok /\ TokenAt(tokens, e.next).type = "DO" /\ body.ok
                   THEN Derived(IF body.node = NullNode THEN loop ELSE Adopt(loop, body.node),
                                body.next, body.declared)
                   ELSE Underivable
          [] token.type = "WRITE" ->
               DeriveWriteArguments(tokens, i + 1, declared, Node("WRITE"))
          [] token.type = "WRITELN" ->
               IF TokenAt(tokens, i + 1).type = "LPAREN"
               THEN DeriveWriteArguments(tokens, i + 1, declared, Node("WRITELN"))
               ELSE Derived(Node("WRITELN"), i + 1, declared)
          [] OTHER -> Derived(NullNode, i, declared)

\* the position of the first token that is not a semicolon
RECURSIVE AfterSemicolons(_, _)
AfterSemicolons(tokens, i) ==
    IF TokenAt(tokens, i).type = "SEMICOLON" THEN AfterSemicolons(tokens, i + 1) ELSE i

\* stmt-list := (statement (';'+ statement)*)?, its statements adopted by
\* parent in source order
DeriveStatementList(tokens, i, declared, parent) ==
    LET s == DeriveStatement(tokens, i, declared)
        adopted == IF s.node = NullNode THEN parent ELSE Adopt(parent, s.node)
    IN  IF ~s.ok THEN Underivable
        ELSE IF TokenAt(tokens, s.next).type = "SEMICOLON"
        THEN DeriveStatementList(tokens, AfterSemicolons(tokens, s.next), s.declared, adopted)
        ELSE Derived(adopted, s.next, s.declared)

\* program := PROGRAM name ';' compound-statement
DeriveProgram(tokens) ==
    LET name == TokenAt(tokens, 2)
        compound == DeriveStatement(tokens, 4, {name.text})
    IN  IF /\ TokenAt(tokens, 1).type = "PROGRAM"
           /\ name.type = "IDENTIFIER"
           /\ TokenAt(tokens, 3).type = "SEMICOLON"
           /\ TokenAt(tokens, 4).type = "BEGIN"
           /\ compound.ok
           /\ compound.next = Len(tokens) + 1
        THEN Derived(Adopt([Node("PROGRAM") EXCEPT !.text = name.text], compound.node),
                     compound.next, compound.declared)
        ELSE Underivable

\* the children that are nodes: a null child stands for an empty statement
Present(children) == SelectSeq(children, LAMBDA c : c # NullNode)

RECURSIVE Structure(_)
\* a tree without its symbol table references and its null children
Structure(n) ==
    [n EXCEPT !.entry = NoEntry,
              !.children = [i \in 1..Len(Present(n.children)) |->
                              Structure(Present(n.children)[i])]]

\* the whole input was read and the grammar derives it
WellFormed == currentToken.type = "END_OF_FILE" /\ DeriveProgram(consumed).ok

C2_WellFormedParsesClean ==
    (Done /\ WellFormed) =>
        /\ errorCount = 0
        /\ Structure(Returned) = DeriveProgram(consumed).node

---------------------------------------------------------------------------
(* C3. Missing separator: a statement of a list followed directly by a     *)
(* statement starter raises exactly one syntax error, and the parent still *)
(* adopts both statements in source order: BEGIN a := 1 a := 2 END gives a *)
(* COMPOUND with both ASSIGN nodes.                                        *)
C3_MissingSeparatorKeepsBoth ==
    (Done /\ family = "missingSeparator") =>
        /\ errorCount = 1
        /\ ReturnedCompound.children = << AssignA("1"), AssignA("2") >>

\* the step that raises "Missing ;"
RaisesMissingSeparator ==
    At("parseStatementList", "adopt") /\ currentToken.type \in statementStarters

\* syntaxError was called by parseStatementList
RecoversMissingSeparator ==
    /\ Len(stack) >= 2
    /\ Top.fn = "syntaxError"
    /\ stack[Len(stack) - 1].fn = "parseStatementList"

(* C3, amended. The missing separator raises exactly one syntax error; the *)
(* tokens from the starter up to the next statement follower are           *)
(* discarded, so the parent adopts the statement before the gap and not    *)
(* the one that begins at the starter; the list goes on at the follower.   *)
(* BEGIN a := 1 a := 2 END gives error count 1 and a COMPOUND with the     *)
(* first ASSIGN only; with the separator it gives both and no error.       *)
C3_MissingSeparatorDiscards ==
    /\ [][ /\ RaisesMissingSeparator =>
                /\ RecoversMissingSeparator'
                /\ errorCount' = errorCount /\ consumed' = consumed
                /\ stack'[Len(stack)].node =
                       IF ret # NullNode THEN Adopt(Top.node, ret) ELSE Top.node
           /\ (RecoversMissingSeparator /\ Top.pc = "start" /\ errorCount < MaxErrors) =>
                /\ errorCount' = errorCount + 1
                /\ consumed' = consumed
           /\ (RecoversMissingSeparator /\ Top.pc = "skip") =>
                /\ errorCount' = errorCount
                /\ stack'[Len(stack) - 1] = stack[Len(stack) - 1]
                /\ IF currentToken.type \in {"SEMICOLON", "END", "UNTIL", "DO", "END_OF_FILE"}
                   THEN stack' = Rest /\ consumed' = consumed
                   ELSE /\ stack' = stack
                        /\ \/ consumed' = Append(consumed, currentToken')
                           \/ consumed' = consumed /\ currentToken'.type = "END_OF_FILE"
         ]_vars
    /\ [](Done =>
           /\ family = "missingSeparator" =>
                /\ errorCount = 1
                /\ ReturnedCompound.children = << AssignA("1") >>
           /\ family = "separator" =>
                /\ errorCount = 0
                /\ ReturnedCompound.children = << AssignA("1"), AssignA("2") >>)

\* BEGIN a := 1 a := 2 END was parsed: one error, the first ASSIGN only
C3_Witness ==
    /\ Done /\ family = "missingSeparator"
    /\ errorCount = 1
    /\ Len(ReturnedCompound.children) = 1
    /\ Len(consumed) = 11

---------------------------------------------------------------------------
(* C4. Undeclared operand: when parseVariable runs on an identifier whose  *)
(* lower-cased name is absent from the symbol table, the error count grows *)
(* by exactly 1, only the identifier is consumed (no token is skipped), a  *)
(* VARIABLE node with the original-case text and no symbol reference is    *)
(* returned, the symbol table is unchanged, and the enclosing ASSIGN node  *)
(* is still returned.                                                      *)
UndeclaredOperand ==
    /\ stack # << >> /\ Top.fn = "parseVariable"
    /\ \A e \in symtab : ToLowerCase(e) # ToLowerCase(currentToken.text)

C4_UndeclaredOperand ==
    /\ [][ /\ (UndeclaredOperand /\ errorCount < MaxErrors) =>
                /\ errorCount' = errorCount + 1
                /\ symtab' = symtab
                /\ ret' = [type |-> "VARIABLE", text |-> currentToken.text, value |-> "",
                           entry |-> "nullptr", children |-> << >>]
                /\ stack' = Rest
                /\ consumed' \in {consumed, Append(consumed, currentToken')}
                /\ consumed[Len(consumed)] = currentToken
           /\ (stack # << >> /\ Top.fn = "parseAssignmentStatement" /\ Len(stack') < Len(stack)) =>
                /\ ret'.type = "ASSIGN"
                /\ Len(ret'.children) = 2
                /\ ret'.children[1].type = "VARIABLE"
         ]_vars
    /\ [](Done /\ family = "undeclared" =>
            /\ errorCount = 1
            /\ symtab = {"x", "y"}
            /\ ReturnedCompound.children =
                 << Adopt(Adopt(Node("ASSIGN"), VariableNode("y", "y")),
                          VariableNode("z", "nullptr")) >>)

\* an assignment returned whose right-hand side is the undeclared Z
C4_Witness ==
    /\ ret.type = "ASSIGN"
    /\ Len(ret.children) = 2
    /\ ret.children[2] = [type |-> "VARIABLE", text |-> "Z", value |-> "",
                          entry |-> "nullptr", children |-> << >>]
    /\ errorCount = 1
    /\ "Z" \notin symtab

---------------------------------------------------------------------------
(* C5. Loop encoding: every LOOP node parseWhileStatement builds has       *)
(* TEST(NOT(condition)) as its first child and the body statement node as  *)
(* its second child; every LOOP node parseRepeatStatement builds has its   *)
(* body statements first, in source order, and TEST(condition) as its last *)
(* child; so in a returned tree the position of the TEST child, first or   *)
(* last, tells the kind of loop.                                           *)
IsStatement(n) == n.type \in StatementTypes

\* TEST(NOT(condition)); the condition is null after a syntax error in it
IsWhileTest(n) ==
    /\ n.type = "TEST" /\ Len(n.children) = 1
    /\ n.children[1].type = "NOT" /\ Len(n.children[1].children) = 1
    /\ n.children[1].children[1].type \in ExpressionTypes \cup {"nullptr"}

\* TEST(condition); the condition is null after a syntax error in it
IsRepeatTest(n) ==
    /\ n.type = "TEST" /\ Len(n.children) = 1
    /\ n.children[1].type \in ExpressionTypes \cup {"nullptr"}

WhileShape(n) ==
    /\ n.type = "LOOP" /\ Len(n.children) \in {1, 2}
    /\ IsWhileTest(n.children[1])
    /\ Len(n.children) = 2 => IsStatement(n.children[2]) \/ n.children[2] = NullNode

RepeatShape(n) ==
    /\ n.type = "LOOP"
    /\ \A i \in 1..Len(n.children) :
         \/ IsStatement(n.children[i])
         \/ i = Len(n.children) /\ IsRepeatTest(n.children[i])

ReturnsFrom(fn) == stack # << >> /\ Top.fn = fn /\ Len(stack') < Len(stack)

C5_TestPositionTellsLoopKind ==
    /\ [][ /\ ReturnsFrom("parseWhileStatement") =>
                /\ Len(ret'.children) = 2
                /\ IsWhileTest(ret'.children[1])
                /\ IsStatement(ret'.children[2])
           /\ ReturnsFrom("parseRepeatStatement") =>
                /\ Len(ret'.children) >= 1
                /\ IsRepeatTest(ret'.children[Len(ret'.children)])
                /\ \A i \in 1..(Len(ret'.children) - 1) : IsStatement(ret'.children[i])
         ]_vars
    /\ [](Done =>
            \A n \in SubNodes(Returned) :
              (n.type = "LOOP" /\ Len(n.children) >= 1) =>
                 (n.children[1].type = "TEST") # (n.children[Len(n.children)].type = "TEST"))

\* the trees of the two loops of section 8 of the specification
VariableX == VariableNode("x", "x")
XPlus1 == Adopt(Adopt(Node("ADD"), VariableX), IntegerConstant("1"))
AssignXPlus1 == Adopt(Adopt(Node("ASSIGN"), VariableX), XPlus1)
XEquals10 == Adopt(Adopt(Node("EQ"), VariableX), IntegerConstant("10"))
XLess10 == Adopt(Adopt(Node("LT"), VariableX), IntegerConstant("10"))
RepeatExample ==
    Adopt(Adopt(Adopt(Node("LOOP"), Node("WRITELN")), AssignXPlus1),
          Adopt(Node("TEST"), XEquals10))
WhileExample ==
    Adopt(Adopt(Node("LOOP"), Adopt(Node("TEST"), Adopt(Node("NOT"), XLess10))),
          AssignXPlus1)

(* C5, amended. Every LOOP node parseWhileStatement builds has             *)
(* TEST(NOT(condition)) as its first child and, when DO follows the        *)
(* condition, one more child: what parseStatement returned for the body, a *)
(* statement node or null (an empty or a rejected body); when DO is        *)
(* missing it has the TEST child only.  Every LOOP node                    *)
(* parseRepeatStatement builds has its body statements first, in source    *)
(* order, and, when the list ended at UNTIL, TEST(condition) as its last   *)
(* child, otherwise no TEST child.  The position of the TEST child alone   *)
(* does not tell the kinds apart (REPEAT UNTIL c gives a LOOP whose TEST   *)
(* is first and last): a LOOP node of a returned tree is a WHILE loop      *)
(* exactly when its first child is a TEST whose child is a NOT node; in a  *)
(* tree returned with error count 0 a WHILE loop has two children and a    *)
(* REPEAT loop ends with its TEST.                                         *)
C5_LoopEncoding ==
    /\ [][ /\ ReturnsFrom("parseWhileStatement") =>
                /\ WhileShape(ret') /\ ~RepeatShape(ret')
                /\ Len(ret'.children) = IF Top.pc = "body" THEN 2 ELSE 1
           /\ ReturnsFrom("parseRepeatStatement") =>
                /\ RepeatShape(ret') /\ ~WhileShape(ret')
                /\ Top.pc = "test" => IsRepeatTest(ret'.children[Len(ret'.children)])
                /\ Top.pc # "test" => \A i \in 1..Len(ret'.children) : IsStatement(ret'.children[i])
         ]_vars
    /\ [](Done =>
            /\ \A n \in SubNodes(Returned) :
                 n.type = "LOOP" =>
                   /\ WhileShape(n) # RepeatShape(n)
                   /\ (errorCount = 0 /\ WhileShape(n)) => Len(n.children) = 2
                   /\ (errorCount = 0 /\ RepeatShape(n)) =>
                        /\ Len(n.children) >= 1
                        /\ IsRepeatTest(n.children[Len(n.children)])
            /\ family = "while" =>
                 errorCount = 0 /\ ReturnedCompound.children = << WhileExample >>
            /\ family = "repeat" =>
                 errorCount = 0 /\ ReturnedCompound.children = << RepeatExample >>)

\* WHILE x < 10 DO x := x + 1 was parsed
C5_Witness ==
    /\ Done /\ family = "while" /\ errorCount = 0
    /\ WhileShape(ReturnedCompound.children[1])
    /\ Len(ReturnedCompound.children[1].children) = 2

---------------------------------------------------------------------------
(* C6. Precedence and associativity: in every error-free expression * and  *)
(* / bind tighter than + and -, which bind tighter than the one relational *)
(* operator, and operators of equal precedence fold left to right.         *)

\* position i of tokens is outside every pair of parentheses
Outside(tokens, i) ==
    Cardinality({j \in 1..(i - 1) : tokens[j].type = "LPAREN"})
      = Cardinality({j \in 1..(i - 1) : tokens[j].type = "RPAREN"})

\* the positions of the operators of the given types outside parentheses
Operators(tokens, types) ==
    {i \in 1..Len(tokens) : tokens[i].type \in types /\ Outside(tokens, i)}

Last(positions) == CHOOSE i \in positions : \A j \in positions : j <= i

\* not the tree of any expression
NoTree == Node("none")

RECURSIVE PrecedenceTree(_)
\* The tree precedence prescribes for an expression: split at the
\* relational operator, else at the last + or -, else at the last * or /,
\* else open the parentheses, else the operand.
PrecedenceTree(tokens) ==
    LET relational     == Operators(tokens, {"EQUALS", "LESS_THAN", "LESS_EQUALS",
                                             "GREATER_THAN", "GREATER_EQUALS", "NOT_EQUALS"})
        additive       == Operators(tokens, {"PLUS", "MINUS"})
        multiplicative == Operators(tokens, {"STAR", "SLASH"})
        SplitAt(i) ==
            Adopt(Adopt(Node(OperatorKind(tokens[i].type)),
                        PrecedenceTree(SubSeq(tokens, 1, i - 1))),
                  PrecedenceTree(SubSeq(tokens, i + 1, Len(tokens))))
    IN  IF tokens = << >> THEN NoTree
        ELSE IF Cardinality(relational) > 1 THEN NoTree
        ELSE IF relational # {} THEN SplitAt(Last(relational))
        ELSE IF additive # {} THEN SplitAt(Last(additive))
        ELSE IF multiplicative # {} THEN SplitAt(Last(multiplicative))
        ELSE IF Len(tokens) >= 2 /\ tokens[1].type = "LPAREN"
                /\ tokens[Len(tokens)].type = "RPAREN"
        THEN PrecedenceTree(SubSeq(tokens, 2, Len(tokens) - 1))
        ELSE IF Len(tokens) = 1 /\ tokens[1].type = "INTEGER"
        THEN [Node("INTEGER_CONSTANT") EXCEPT !.value = tokens[1].value]
        ELSE IF Len(tokens) = 1 /\ tokens[1].type = "REAL"
        THEN [Node("REAL_CONSTANT") EXCEPT !.value = tokens[1].value]
        ELSE NoTree

\* the tokens of the expression parseExpression just returned, in the
\* families whose seventh token starts the expression: the lookahead is not
\* part of it
ExpressionTokens ==
    SubSeq(consumed, 7,
           IF currentToken.type = "END_OF_FILE" THEN Len(consumed) ELSE Len(consumed) - 1)

ExpressionReturned ==
    /\ At("parseAssignmentStatement", "adopt")
    /\ family \in {"expr", "ops"}

C6_Precedence ==
    (ExpressionReturned /\ errorCount = 0) => ret = PrecedenceTree(ExpressionTokens)

\* x := 1 + 2 * 3 gave ADD(1, MULTIPLY(2, 3))
C6_Witness ==
    /\ ExpressionReturned /\ errorCount = 0
    /\ ret = Adopt(Adopt(Node("ADD"), IntegerConstant("1")),
                   Adopt(Adopt(Node("MULTIPLY"), IntegerConstant("2")),
                         IntegerConstant("3")))

---------------------------------------------------------------------------
(* C7. In every tree parseProgram returns, for any token sequence, every   *)
(* ASSIGN node has exactly two children, a VARIABLE then an expression     *)
(* node, and every relational and arithmetic node has exactly two children *)
(* that are expression nodes; no child is missing or null.                 *)
IsExpression(n) == n.type \in ExpressionTypes

C7_BinaryNodesComplete ==
    Done =>
      \A n \in SubNodes(Returned) :
        /\ n.type = "ASSIGN" =>
             /\ Len(n.children) = 2
             /\ n.children[1].type = "VARIABLE"
             /\ IsExpression(n.children[2])
        /\ n.type \in RelationalTypes \cup ArithmeticTypes =>
             /\ Len(n.children) = 2
             /\ IsExpression(n.children[1])
             /\ IsExpression(n.children[2])

(* C7, amended. Every ASSIGN node has exactly two children, a VARIABLE     *)
(* then an expression node or, after a syntax error in the expression, a   *)
(* null child; every relational and arithmetic node has exactly two        *)
(* children, an expression node then an expression node or, after a syntax *)
(* error, a null child.  In a tree returned with error count 0 no child of *)
(* these nodes is null.                                                    *)
C7_BinaryNodesCompleteUnlessError ==
    Done =>
      \A n \in SubNodes(Returned) :
        /\ n.type = "ASSIGN" =>
             /\ Len(n.children) = 2
             /\ n.children[1].type = "VARIABLE"
             /\ IsExpression(n.children[2]) \/ n.children[2] = NullNode
             /\ errorCount = 0 => n.children[2] # NullNode
        /\ n.type \in RelationalTypes \cup ArithmeticTypes =>
             /\ Len(n.children) = 2
             /\ IsExpression(n.children[1])
             /\ IsExpression(n.children[2]) \/ n.children[2] = NullNode
             /\ errorCount = 0 => n.children[2] # NullNode

\* a clean parse returned an ASSIGN whose right-hand side is a relational
\* node over an arithmetic node
C7_Witness ==
    /\ Done /\ errorCount = 0
    /\ \E n \in SubNodes(Returned) :
         /\ n.type = "ASSIGN"
         /\ n.children[2].type \in RelationalTypes
         /\ n.children[2].children[2].type \in ArithmeticTypes

---------------------------------------------------------------------------
(* C8. In every tree parseProgram returns, for any token sequence, every   *)
(* WRITE node has at least one child; a WRITELN node may have none; the    *)
(* children are, in order, the argument (VARIABLE or STRING_CONSTANT),     *)
(* then optionally the field width, then optionally the count of decimal   *)
(* places.                                                                 *)
WriteChildrenInOrder(n) ==
    /\ Len(n.children) <= 3
    /\ Len(n.children) >= 1 => n.children[1].type \in {"VARIABLE", "STRING_CONSTANT"}
    /\ Len(n.children) >= 2 => n.children[2].type = "INTEGER_CONSTANT"
    /\ Len(n.children) >= 3 => n.children[3].type = "INTEGER_CONSTANT"

C8_WriteHasArgument ==
    Done =>
      \A n \in SubNodes(Returned) :
        /\ n.type \in {"WRITE", "WRITELN"} => WriteChildrenInOrder(n)
        /\ n.type = "WRITE" => Len(n.children) >= 1

(* C8, amended. In every tree parseProgram returns with error count 0,     *)
(* every WRITE node has at least one child (a WRITE whose arguments were   *)
(* rejected is returned without children, after a syntax error); a WRITELN *)
(* node may have none; in every returned tree the children of either are,  *)
(* in order, the argument (VARIABLE or STRING_CONSTANT), then optionally   *)
(* the field width, then optionally the count of decimal places.           *)
C8_WriteHasArgumentUnlessError ==
    Done =>
      \A n \in SubNodes(Returned) :
        /\ n.type \in {"WRITE", "WRITELN"} => WriteChildrenInOrder(n)
        /\ (n.type = "WRITE" /\ errorCount = 0) => Len(n.children) >= 1

\* a clean parse returned a WRITE with an argument and a field width
C8_Witness ==
    /\ Done /\ errorCount = 0
    /\ \E n \in SubNodes(Returned) : n.type = "WRITE" /\ Len(n.children) = 2

---------------------------------------------------------------------------
(* C9. Panic-mode recovery: each syntax error raised while parsing a       *)
(* statement adds exactly 1 to the error count and discards tokens only    *)
(* until the lookahead is a statement follower (no follower is discarded); *)
(* after that, control returns to the nearest enclosing parseStatementList *)
(* loop: the failing production consumes no further token and reports no   *)
(* further syntax error.                                                   *)
FollowerTypes == {"SEMICOLON", "END", "UNTIL", "END_OF_FILE", "DO"}

InSyntaxError == stack # << >> /\ Top.fn = "syntaxError"

\* a statement is being parsed
InStatementList == \E i \in 1..Len(stack) : stack[i].fn = "parseStatementList"

\* one syntaxError step: count once, discard non-followers only
SyntaxErrorStep ==
    /\ ret' = ret /\ symtab' = symtab
    /\ (Top.pc = "start" /\ errorCount < MaxErrors) =>
         /\ errorCount' = errorCount + 1
         /\ consumed' = consumed /\ currentToken' = currentToken
    /\ Top.pc = "skip" =>
         /\ errorCount' = errorCount
         /\ IF currentToken.type \in FollowerTypes
            THEN stack' = Rest /\ consumed' = consumed /\ currentToken' = currentToken
            ELSE /\ stack' = stack
                 /\ \/ consumed' = Append(consumed, currentToken')
                    \/ consumed' = consumed /\ currentToken'.type = "END_OF_FILE"

\* the positions a statement's production reaches only when its call of
\* syntaxError has returned
AfterSyntaxError ==
    /\ stack # << >>
    /\ << Top.fn, Top.pc >> \in
          { << "parseStatement", "error" >>,
            << "parseAssignmentStatement", "expression" >>,
            << "parseCompoundStatement", "return" >>,
            << "parseRepeatStatement", "return" >>,
            << "parseWhileStatement", "return" >>,
            << "parseWriteStatement", "return" >>,
            << "parseWriteArguments", "return" >>,
            << "parseFactor", "null" >>,
            << "parseFactor", "returnExpr" >> }

\* after its syntax error the production only returns
C9_ReturnsToStatementList ==
    [][ /\ InSyntaxError => SyntaxErrorStep
        /\ (AfterSyntaxError /\ InStatementList) =>
              /\ stack' = Rest
              /\ consumed' = consumed
              /\ errorCount' = errorCount ]_vars

(* C9, amended. Each syntax error adds exactly 1 to the error count and    *)
(* discards tokens only until the lookahead is a statement follower (no    *)
(* follower is discarded); after that syntaxError returns to the           *)
(* production that called it, which goes on from the call and may consume  *)
(* further tokens and report further syntax errors, so one grammar         *)
(* violation can yield several syntax errors.                              *)
\* PROGRAM x ; BEGIN x 1 END was parsed: := is missing
MissingColonEquals ==
    /\ Done /\ currentToken.type = "END_OF_FILE"
    /\ consumed = << Tok("PROGRAM", "PROGRAM"), Ident("x"), Tok("SEMICOLON", ";"),
                     Tok("BEGIN", "BEGIN"), Ident("x"), Int("1"), Tok("END", "END") >>

C9_ReturnsToCaller ==
    /\ [][ InSyntaxError =>
             /\ SyntaxErrorStep
             /\ stack' \in {stack, Rest, Rest \o << [Top EXCEPT !.pc = "skip"] >>} ]_vars
    /\ [](MissingColonEquals => errorCount = 2)

\* BEGIN x 1 END: "Missing :=" and then "Unexpected token" from parseFactor
C9_Witness == MissingColonEquals /\ errorCount = 2 /\ Len(ReturnedCompound.children) = 1

---------------------------------------------------------------------------
(* C10. The parser never asks the scanner for a token after END_OF_FILE    *)
(* was delivered, and parseCompoundStatement's "consume BEGIN" is only     *)
(* executed when the lookahead is BEGIN.                                   *)
C10_NoReadPastEOF_ConsumeBeginAtBegin ==
    /\ ~readPastEOF
    /\ At("parseCompoundStatement", "start") => currentToken.type = "BEGIN"

=============================================================================
